---- MODULE Spec2Model ----
(***************************************************************************)
(* A model of the terminal styling library: the escape-aware width         *)
(* utilities (width.ts), the layout compositor (layout.ts) and the fluent  *)
(* Style builder with its render pipeline (style.ts).                       *)
(*                                                                         *)
(* A string is a sequence of UTF-16 code units (natural numbers), exactly  *)
(* as the TypeScript code indexes it with s[i] / charCodeAt(i).            *)
(***************************************************************************)
EXTENDS Integers, Sequences, FiniteSets, TLC

VARIABLES
    op,       \* the operation that produced the current results ("none" at start)
    s,        \* first string argument
    t,        \* second string argument (tail, second block)
    n,        \* first integer argument (maxWidth, width)
    h,        \* second integer argument (height)
    hPos,     \* horizontal / only position argument, in halves (1 = 0.5)
    vPos,     \* vertical position argument, in halves
    out,      \* string result
    out2,     \* string result of a second application
    kept,     \* truncate: the indices of s whose code units were copied to the result
    num,      \* integer result (a width)
    num2,     \* second integer result (a height)
    threw,    \* TRUE when the operation raised an exception
    styles,   \* the Style objects allocated so far: a sequence of option records
    recv,     \* the index in styles of the receiver of the last builder call (0: none)
    stages    \* render: the values str took, from the preprocessed text to the result

vars == <<op, s, t, n, h, hPos, vPos, out, out2, kept, num, num2, threw, styles, recv,
          stages>>

(***************************************************************************)
(* Bounds of the model.                                                    *)
(***************************************************************************)
MaxLen == 3        \* longest input string of the width utilities
MaxWidth == 3      \* largest integer width argument

(***************************************************************************)
(* Generic helpers.                                                        *)
(***************************************************************************)
Max(a, b) == IF a >= b THEN a ELSE b
Min(a, b) == IF a <= b THEN a ELSE b

\* All strings over alphabet A of length at most k.
Str(A, k) == UNION {[1..m -> A] : m \in 0..k}

\* String.prototype.includes for one code unit.
Includes(str, c) == \E i \in 1..Len(str) : str[i] = c

\* The code units of str at the positions idx (a sequence of indices), in order.
Pick(str, idx) == [k \in 1..Len(idx) |-> str[idx[k]]]

(***************************************************************************)
(* width.ts: scanner states and byte classes.                              *)
(***************************************************************************)
ESC == 27

Ground == "Ground"
Escape == "Escape"
CsiEntry == "CsiEntry"
CsiParam == "CsiParam"
CsiIntermediate == "CsiIntermediate"
OscString == "OscString"

isCsiParam(b) == b >= 48 /\ b <= 63           \* 0x30..0x3f
isCsiIntermediate(b) == b >= 32 /\ b <= 47    \* 0x20..0x2f
isCsiFinal(b) == b >= 64 /\ b <= 126          \* 0x40..0x7e

(***************************************************************************)
(* codePointWidth: the display width of one code point.                    *)
(***************************************************************************)
codePointWidth(cp) ==
    IF cp < 32 \/ (cp >= 127 /\ cp < 160) THEN 0
    ELSE IF cp >= 32 /\ cp <= 126 THEN 1
    ELSE IF \/ (cp >= 4352 /\ cp <= 4447)         \* 0x1100..0x115f
            \/ (cp >= 11904 /\ cp <= 40959)       \* 0x2e80..0x9fff
            \/ (cp >= 44032 /\ cp <= 55203)       \* 0xac00..0xd7a3
            \/ (cp >= 63744 /\ cp <= 64255)       \* 0xf900..0xfaff
            \/ (cp >= 65040 /\ cp <= 65055)       \* 0xfe10..0xfe1f
            \/ (cp >= 65072 /\ cp <= 65135)       \* 0xfe30..0xfe6f
            \/ (cp >= 65280 /\ cp <= 65376)       \* 0xff00..0xff60
            \/ (cp >= 65504 /\ cp <= 65510)       \* 0xffe0..0xffe6
            \/ (cp >= 131072 /\ cp <= 196605)     \* 0x20000..0x2fffd
            \/ (cp >= 196608 /\ cp <= 262141)     \* 0x30000..0x3fffd
         THEN 2
    ELSE IF \/ cp = 8205                          \* 0x200d
            \/ (cp >= 65024 /\ cp <= 65039)       \* 0xfe00..0xfe0f
            \/ (cp >= 127995 /\ cp <= 127999)     \* 0x1f3fb..0x1f3ff
         THEN 0
    ELSE IF \/ (cp >= 127744 /\ cp <= 129535)     \* 0x1f300..0x1f9ff
            \/ (cp >= 129536 /\ cp <= 129791)     \* 0x1fa00..0x1faff
            \/ (cp >= 9728 /\ cp <= 9983)         \* 0x2600..0x26ff
            \/ (cp >= 9984 /\ cp <= 10175)        \* 0x2700..0x27bf
         THEN 2
    ELSE 1

(***************************************************************************)
(* stripAnsi.                                                              *)
(***************************************************************************)
\* The guard of the fast path: the string holds an ESC or a 0x9b.
hasEscape(str) == Includes(str, ESC) \/ Includes(str, 155)

\* What the Escape state appends for a byte that starts no sequence: ESC + s[i].
escapeLiteral_byteOnly(c) == <<c>>
escapeLiteral(c) == <<ESC, c>>

RECURSIVE stripLoop(_, _, _, _)
stripLoop(str, i, state, result) ==
    IF i > Len(str) THEN result
    ELSE LET c == str[i] IN
      CASE state = Ground ->
             IF c = 27 THEN stripLoop(str, i + 1, Escape, result)
             ELSE IF c = 155 THEN stripLoop(str, i + 1, CsiEntry, result)
             ELSE IF c = 157 THEN stripLoop(str, i + 1, OscString, result)
             ELSE stripLoop(str, i + 1, Ground, Append(result, c))
        [] state = Escape ->
             IF c = 91 THEN stripLoop(str, i + 1, CsiEntry, result)
             ELSE IF c = 93 THEN stripLoop(str, i + 1, OscString, result)
             ELSE IF c >= 64 /\ c <= 95 THEN stripLoop(str, i + 1, Ground, result)
             ELSE IF c >= 96 /\ c <= 126 THEN stripLoop(str, i + 1, Ground, result)
             ELSE stripLoop(str, i + 1, Ground, result \o escapeLiteral(c))
        [] state = CsiEntry ->
             IF isCsiParam(c) THEN stripLoop(str, i + 1, CsiParam, result)
             ELSE IF isCsiIntermediate(c) THEN stripLoop(str, i + 1, CsiIntermediate, result)
             ELSE IF isCsiFinal(c) THEN stripLoop(str, i + 1, Ground, result)
             ELSE stripLoop(str, i + 1, CsiEntry, result)
        [] state = CsiParam ->
             IF isCsiIntermediate(c) THEN stripLoop(str, i + 1, CsiIntermediate, result)
             ELSE IF isCsiFinal(c) THEN stripLoop(str, i + 1, Ground, result)
             ELSE stripLoop(str, i + 1, CsiParam, result)
        [] state = CsiIntermediate ->
             IF isCsiFinal(c) THEN stripLoop(str, i + 1, Ground, result)
             ELSE stripLoop(str, i + 1, CsiIntermediate, result)
        [] state = OscString ->
             IF c = 7 \/ c = 156 THEN stripLoop(str, i + 1, Ground, result)
             ELSE IF c = 27 /\ i + 1 <= Len(str) /\ str[i + 1] = 92
                  THEN stripLoop(str, i + 2, Ground, result)
             ELSE stripLoop(str, i + 1, OscString, result)

stripAnsi(str) ==
    IF ~hasEscape(str) THEN str ELSE stripLoop(str, 1, Ground, <<>>)

(***************************************************************************)
(* stringWidth: strip, then add the widths of the code points.  The        *)
(* for..of loop reads a high surrogate followed by a low surrogate as one  *)
(* code point and any other code unit as itself.                           *)
(***************************************************************************)
isHighSurrogate(u) == u >= 55296 /\ u <= 56319    \* 0xd800..0xdbff
isLowSurrogate(u) == u >= 56320 /\ u <= 57343     \* 0xdc00..0xdfff

RECURSIVE codePointsWidth(_, _)
codePointsWidth(str, i) ==
    IF i > Len(str) THEN 0
    ELSE IF isHighSurrogate(str[i]) /\ i + 1 <= Len(str) /\ isLowSurrogate(str[i + 1])
         THEN codePointWidth(65536 + (str[i] - 55296) * 1024 + (str[i + 1] - 56320))
              + codePointsWidth(str, i + 2)
    ELSE codePointWidth(str[i]) + codePointsWidth(str, i + 1)

stringWidth(str) ==
    IF str = <<>> THEN 0 ELSE codePointsWidth(stripAnsi(str), 1)

(***************************************************************************)
(* maxLineWidth and lineCount.  split(str, sep) is String.prototype.split  *)
(* on a one-unit separator: a non-empty sequence of lines.                 *)
(***************************************************************************)
LF == 10

\* String.prototype.split on a one-unit separator: the pieces between the
\* separators, found one separator at a time from index i on.
RECURSIVE splitFrom(_, _, _)
splitFrom(str, sep, i) ==
    LET found == {j \in i..Len(str) : str[j] = sep} IN
    IF found = {} THEN <<SubSeq(str, i, Len(str))>>
    ELSE LET next == CHOOSE j \in found : \A other \in found : j <= other
         IN <<SubSeq(str, i, next - 1)>> \o splitFrom(str, sep, next + 1)

split(str, sep) == splitFrom(str, sep, 1)

\* Array.prototype.join with a separator string.
RECURSIVE joinFrom(_, _, _)
joinFrom(lines, sep, i) ==
    IF i > Len(lines) THEN <<>>
    ELSE IF i = Len(lines) THEN lines[i]
    ELSE lines[i] \o sep \o joinFrom(lines, sep, i + 1)

join(lines, sep) == joinFrom(lines, sep, 1)

RECURSIVE maxWidthOf(_, _, _)
maxWidthOf(lines, i, max) ==
    IF i > Len(lines) THEN max
    ELSE LET w == stringWidth(lines[i]) IN
         maxWidthOf(lines, i + 1, IF w > max THEN w ELSE max)

maxLineWidth(str) == maxWidthOf(split(str, LF), 1, 0)

lineCount_splitOnly(str) == Len(split(str, LF))

lineCount(str) == IF str = <<>> THEN 0 ELSE Len(split(str, LF))

(***************************************************************************)
(* String.prototype.repeat for a count >= 0; a negative count raises a     *)
(* RangeError, which the callers that can pass one model with repeatThrows.*)
(***************************************************************************)
RECURSIVE repeat(_, _)
repeat(str, count) == IF count <= 0 THEN <<>> ELSE str \o repeat(str, count - 1)

repeatThrows(count) == count < 0

SPACE == <<32>>

(***************************************************************************)
(* truncate.  The scan loop is modelled on indices: result and             *)
(* escapeBuffer hold the positions of the code units of str they are made  *)
(* of, so that the result string is Pick(str, result).                     *)
(***************************************************************************)
RECURSIVE truncateLoop(_, _, _, _, _, _, _)
truncateLoop(str, targetWidth, i, state, result, escapeBuffer, currentWidth) ==
    IF i > Len(str) THEN result
    ELSE LET c == str[i]
             buf == Append(escapeBuffer, i)
         IN
      IF state # Ground THEN
        CASE state = Escape ->
               IF c = 91 THEN truncateLoop(str, targetWidth, i + 1, CsiEntry, result, buf, currentWidth)
               ELSE IF c = 93 THEN truncateLoop(str, targetWidth, i + 1, OscString, result, buf, currentWidth)
               ELSE truncateLoop(str, targetWidth, i + 1, Ground, result \o buf, <<>>, currentWidth)
          [] state = CsiEntry \/ state = CsiParam ->
               IF isCsiFinal(c) THEN truncateLoop(str, targetWidth, i + 1, Ground, result \o buf, <<>>, currentWidth)
               ELSE IF isCsiParam(c) THEN truncateLoop(str, targetWidth, i + 1, CsiParam, result, buf, currentWidth)
               ELSE IF isCsiIntermediate(c) THEN truncateLoop(str, targetWidth, i + 1, CsiIntermediate, result, buf, currentWidth)
               ELSE truncateLoop(str, targetWidth, i + 1, state, result, buf, currentWidth)
          [] state = CsiIntermediate ->
               IF isCsiFinal(c) THEN truncateLoop(str, targetWidth, i + 1, Ground, result \o buf, <<>>, currentWidth)
               ELSE truncateLoop(str, targetWidth, i + 1, state, result, buf, currentWidth)
          [] state = OscString ->
               IF c = 7 THEN truncateLoop(str, targetWidth, i + 1, Ground, result \o buf, <<>>, currentWidth)
               ELSE IF c = 27 /\ i + 1 <= Len(str) /\ str[i + 1] = 92
                    THEN truncateLoop(str, targetWidth, i + 2, Ground,
                                      result \o Append(buf, i + 1), <<>>, currentWidth)
               ELSE truncateLoop(str, targetWidth, i + 1, state, result, buf, currentWidth)
      ELSE IF c = 27 THEN truncateLoop(str, targetWidth, i + 1, Escape, result, <<i>>, currentWidth)
      ELSE IF c = 155 THEN truncateLoop(str, targetWidth, i + 1, CsiEntry, result, <<i>>, currentWidth)
      ELSE LET w == codePointWidth(c) IN
           IF currentWidth + w > targetWidth THEN result
           ELSE truncateLoop(str, targetWidth, i + 1, Ground, Append(result, i),
                             escapeBuffer, currentWidth + w)

\* The positions of str that truncate copies to its result, on every path.
truncateIndices(str, maxWidth, tail) ==
    IF maxWidth <= 0 THEN <<>>
    ELSE IF stringWidth(str) <= maxWidth THEN [k \in 1..Len(str) |-> k]
    ELSE LET tailWidth == stringWidth(tail)
             targetWidth == maxWidth - tailWidth
         IN IF targetWidth <= 0 THEN <<>>
            ELSE truncateLoop(str, targetWidth, 1, Ground, <<>>, <<>>, 0)

truncate(str, maxWidth, tail) ==
    IF maxWidth <= 0 THEN <<>>
    ELSE IF stringWidth(str) <= maxWidth THEN str
    ELSE LET tailWidth == stringWidth(tail)
             targetWidth == maxWidth - tailWidth
         IN IF targetWidth <= 0 THEN SubSeq(tail, 1, Min(maxWidth, Len(tail)))
            ELSE Pick(str, truncateLoop(str, targetWidth, 1, Ground, <<>>, <<>>, 0)) \o tail

(***************************************************************************)
(* padLeft, padRight, center.                                              *)
(***************************************************************************)
padLeft_byLength(str, width, char) ==
    IF Len(str) >= width THEN str ELSE repeat(char, width - Len(str)) \o str

padLeft(str, width, char) ==
    LET currentWidth == stringWidth(str) IN
    IF currentWidth >= width THEN str
    ELSE repeat(char, width - currentWidth) \o str

padRight(str, width, char) ==
    LET currentWidth == stringWidth(str) IN
    IF currentWidth >= width THEN str
    ELSE str \o repeat(char, width - currentWidth)

center(str, width, char) ==
    LET currentWidth == stringWidth(str) IN
    IF currentWidth >= width THEN str
    ELSE LET total == width - currentWidth
             left == total \div 2
             right == total - left
         IN repeat(char, left) \o str \o repeat(char, right)

(***************************************************************************)
(* The escape scanner as specified (section 4.1): scan(str).tags gives,    *)
(* for each position of str, 0 for a Visible code unit and k > 0 for a     *)
(* code unit of the k-th Control segment; scan(str).state is the state the *)
(* scanner is in at the end of the input.                                  *)
(***************************************************************************)
RECURSIVE scanLoop(_, _, _, _, _)
scanLoop(str, i, state, run, tags) ==
    IF i > Len(str) THEN [tags |-> tags, state |-> state]
    ELSE LET c == str[i]
             in == Append(tags, run)
         IN
      CASE state = Ground ->
             IF c = 27 THEN scanLoop(str, i + 1, Escape, run + 1, Append(tags, run + 1))
             ELSE IF c = 155 THEN scanLoop(str, i + 1, CsiEntry, run + 1, Append(tags, run + 1))
             ELSE IF c = 157 THEN scanLoop(str, i + 1, OscString, run + 1, Append(tags, run + 1))
             ELSE scanLoop(str, i + 1, Ground, run, Append(tags, 0))
        [] state = Escape ->
             IF c = 91 THEN scanLoop(str, i + 1, CsiEntry, run, in)
             ELSE IF c = 93 THEN scanLoop(str, i + 1, OscString, run, in)
             ELSE IF (c >= 64 /\ c <= 95) \/ (c >= 96 /\ c <= 126)
                  THEN scanLoop(str, i + 1, Ground, run, in)
             ELSE scanLoop(str, i + 1, Ground, run - 1,
                           Append([tags EXCEPT ![i - 1] = 0], 0))
        [] state = CsiEntry \/ state = CsiParam ->
             IF c >= 48 /\ c <= 63 THEN scanLoop(str, i + 1, CsiParam, run, in)
             ELSE IF c >= 32 /\ c <= 47 THEN scanLoop(str, i + 1, CsiIntermediate, run, in)
             ELSE IF c >= 64 /\ c <= 126 THEN scanLoop(str, i + 1, Ground, run, in)
             ELSE scanLoop(str, i + 1, state, run, in)
        [] state = CsiIntermediate ->
             IF c >= 64 /\ c <= 126 THEN scanLoop(str, i + 1, Ground, run, in)
             ELSE scanLoop(str, i + 1, state, run, in)
        [] state = OscString ->
             IF c = 7 \/ c = 156 THEN scanLoop(str, i + 1, Ground, run, in)
             ELSE IF c = 27 /\ i + 1 <= Len(str) /\ str[i + 1] = 92
                  THEN scanLoop(str, i + 2, Ground, run, Append(in, run))
             ELSE scanLoop(str, i + 1, state, run, in)

scan(str) == scanLoop(str, 1, Ground, 0, <<>>)

\* The Visible code units of str, in order.
RECURSIVE visibleFrom(_, _, _)
visibleFrom(str, tags, i) ==
    IF i > Len(str) THEN <<>>
    ELSE IF tags[i] = 0 THEN <<str[i]>> \o visibleFrom(str, tags, i + 1)
    ELSE visibleFrom(str, tags, i + 1)

visibleText(str) == visibleFrom(str, scan(str).tags, 1)

\* The Control segments of str, each as its set of positions.
controlRuns(str) ==
    LET tags == scan(str).tags IN
    {{i \in 1..Len(str) : tags[i] = k} : k \in {tags[i] : i \in 1..Len(str)} \ {0}}

\* str is a sequence of Visible text and whole Control segments.
endsInGround(str) == scan(str).state = Ground

(***************************************************************************)
(* The width utilities as a state machine: from the idle state one         *)
(* exported function is called on arguments drawn from bounded sets, and   *)
(* its arguments and results are recorded.                                 *)
(***************************************************************************)
\* ESC, [, ], m (a final byte), 1 (a parameter byte), space (an intermediate
\* byte), 0x9b, 0x9d, 0x9c, BEL, backslash, and a wide CJK character.
Chars == {27, 91, 93, 109, 49, 32, 155, 157, 156, 7, 92, 20320}

\* Tails of truncate: none, ".", one wide character, two wide characters.
Tails == {<<>>, <<46>>, <<20320>>, <<20320, 20320>>}

\* Strings with an astral-plane character: m and the two code units
\* 0xd83d 0xde00 of U+1F600, a two-column emoji.
AstralChars == {109, 55357, 56832}

\* The strings handed to truncate.
TruncateInputs == Str(Chars, MaxLen) \cup Str(AstralChars, MaxLen)

\* A smaller alphabet for pairs of strings: ESC, m, 0x9d, BEL, a wide character.
PairChars == {27, 109, 157, 7, 20320}

NoStyles == <<>>

Idle ==
    /\ op = "none" /\ s = <<>> /\ t = <<>> /\ n = 0 /\ h = 0
    /\ hPos = 0 /\ vPos = 0 /\ out = <<>> /\ out2 = <<>> /\ kept = {}
    /\ num = 0 /\ num2 = 0 /\ threw = FALSE /\ recv = 0 /\ stages = <<>>

InitWidth == Idle /\ styles = NoStyles

CallStripAnsi ==
    /\ op = "none"
    /\ \E str \in Str(Chars, MaxLen) :
         /\ s' = str
         /\ out' = stripAnsi(str)
    /\ op' = "stripAnsi"
    /\ UNCHANGED <<t, n, h, hPos, vPos, out2, kept, num, num2, threw, styles, recv, stages>>

\* stripAnsi applied to the result of a first stripAnsi.
CallStripAnsiAgain ==
    /\ op = "stripAnsi"
    /\ out2' = stripAnsi(out)
    /\ op' = "stripAnsi2"
    /\ UNCHANGED <<s, t, n, h, hPos, vPos, out, kept, num, num2, threw, styles, recv, stages>>

\* stringWidth of a, of b and of a + b.
CallStringWidth ==
    /\ op = "none"
    /\ \E a \in Str(PairChars, MaxLen), b \in Str(PairChars, MaxLen) :
         /\ s' = a
         /\ t' = b
         /\ out' = a \o b
         /\ num' = stringWidth(a \o b)
    /\ op' = "stringWidth"
    /\ UNCHANGED <<n, h, hPos, vPos, out2, kept, num2, threw, styles, recv, stages>>

CallTruncate ==
    /\ op = "none"
    /\ \E str \in TruncateInputs, maxWidth \in 0..MaxWidth, tail \in Tails :
         /\ s' = str
         /\ n' = maxWidth
         /\ t' = tail
         /\ out' = truncate(str, maxWidth, tail)
         /\ kept' = {truncateIndices(str, maxWidth, tail)[k] :
                       k \in 1..Len(truncateIndices(str, maxWidth, tail))}
    /\ op' = "truncate"
    /\ UNCHANGED <<h, hPos, vPos, out2, num, num2, threw, styles, recv, stages>>

CallPadLeft ==
    /\ op = "none"
    /\ \E str \in Str(Chars, MaxLen), width \in 0..MaxWidth :
         /\ s' = str
         /\ n' = width
         /\ out' = padLeft(str, width, SPACE)
    /\ op' = "padLeft"
    /\ UNCHANGED <<t, h, hPos, vPos, out2, kept, num, num2, threw, styles, recv, stages>>

CallPadRight ==
    /\ op = "none"
    /\ \E str \in Str(Chars, MaxLen), width \in 0..MaxWidth :
         /\ s' = str
         /\ n' = width
         /\ out' = padRight(str, width, SPACE)
    /\ op' = "padRight"
    /\ UNCHANGED <<t, h, hPos, vPos, out2, kept, num, num2, threw, styles, recv, stages>>

CallCenter ==
    /\ op = "none"
    /\ \E str \in Str(Chars, MaxLen), width \in 0..MaxWidth :
         /\ s' = str
         /\ n' = width
         /\ out' = center(str, width, SPACE)
    /\ op' = "center"
    /\ UNCHANGED <<t, h, hPos, vPos, out2, kept, num, num2, threw, styles, recv, stages>>

NextWidth ==
    \/ CallStripAnsi
    \/ CallStripAnsiAgain
    \/ CallStringWidth
    \/ CallTruncate
    \/ CallPadLeft
    \/ CallPadRight
    \/ CallCenter

SpecWidth == InitWidth /\ [][NextWidth]_vars

(***************************************************************************)
(* Claims about the width utilities.                                       *)
(***************************************************************************)

\* C1: the display width of truncate(s, maxWidth, tail) is at most maxWidth,
\* for every string, every maxWidth >= 0 and every tail.
C1_TruncateWidthBound ==
    op = "truncate" => stringWidth(out) <= n

\* C2: truncate(s, maxWidth) keeps each control run of s whole or drops it
\* whole, on the truncating path and on the return-unchanged path.
C2_TruncateKeepsRunsWhole ==
    (op = "truncate" /\ t = <<>>) =>
        \A run \in controlRuns(s) : run \subseteq kept \/ run \cap kept = {}

\* C3: stripAnsi(s) is exactly the Visible code units of s, in order, the
\* Control code units being those of the scanner's transition rules.
C3_StripRemovesExactlyControl ==
    op = "stripAnsi" => out = visibleText(s)

\* C4: stripAnsi is idempotent: stripAnsi(stripAnsi(s)) = stripAnsi(s).
C4_StripIdempotent ==
    op = "stripAnsi2" => out2 = out

\* C4 witness: a second strip of a result that differs from the input and
\* still holds an ESC kept as literal text.
C4_Witness ==
    op = "stripAnsi2" /\ out # s /\ Includes(out, ESC)

\* C5: stringWidth is non-negative, and additive over the concatenation of
\* two strings that each consist of visible text and whole control runs.
C5_WidthAdditive ==
    (op = "stringWidth" /\ endsInGround(s) /\ endsInGround(t)) =>
        /\ num >= 0
        /\ num = stringWidth(s) + stringWidth(t)

\* C6: with the default pad character, width(padLeft(s, n)) = max(width(s), n):
\* s is returned unchanged when width(s) >= n, and otherwise exactly
\* n - width(s) pad characters are prepended.
C6_PadLeftWidth ==
    op = "padLeft" =>
        /\ stringWidth(out) = Max(stringWidth(s), n)
        /\ (stringWidth(s) >= n => out = s)
        /\ (stringWidth(s) < n =>
               /\ Len(out) = Len(s) + (n - stringWidth(s))
               /\ SubSeq(out, n - stringWidth(s) + 1, Len(out)) = s
               /\ \A i \in 1..(n - stringWidth(s)) : out[i] = 32)

\* C6 witness: padLeft has padded a string that holds a control sequence and
\* a wide character.
C6_Witness ==
    /\ op = "padLeft"
    /\ stringWidth(s) < n
    /\ hasEscape(s)
    /\ Includes(s, 20320)
    /\ Len(out) > Len(s)

\* truncate has cut: the string is wider than maxWidth and the tail fits.
truncationHappens == n > 0 /\ stringWidth(s) > n /\ n > stringWidth(t)

\* The lengths of the prefixes of str that end between two code points.
wholePrefixes(str) ==
    {k \in 0..Len(str) :
        ~(k >= 1 /\ k < Len(str) /\ isHighSurrogate(str[k]) /\ isLowSurrogate(str[k + 1]))}

\* The longest prefix of whole code points of str whose code points are
\* together at most budget columns wide.
longestPrefix(str, budget) ==
    LET fitting == {k \in wholePrefixes(str) : codePointsWidth(SubSeq(str, 1, k), 1) <= budget}
    IN SubSeq(str, 1, CHOOSE k \in fitting : \A other \in fitting : other <= k)

\* C23: truncate(s, maxWidth, tail) is empty when maxWidth <= 0 and s itself
\* when width(s) <= maxWidth; when width(s) > maxWidth > width(tail) its
\* visible text is p followed by tail, p being the longest prefix of whole
\* code points of the visible text of s with width(p) <= maxWidth - width(tail).
C23_TruncatePrefix ==
    op = "truncate" =>
        /\ n <= 0 => out = <<>>
        /\ (n > 0 /\ stringWidth(s) <= n) => out = s
        /\ truncationHappens =>
              visibleText(out) =
                  longestPrefix(visibleText(s), n - stringWidth(t)) \o visibleText(t)

\* The members of a set of positions in ascending order.
RECURSIVE ascending(_)
ascending(positions) ==
    IF positions = {} THEN <<>>
    ELSE LET first == CHOOSE i \in positions : \A j \in positions : i <= j
         IN <<first>> \o ascending(positions \ {first})

\* C24: when truncate cuts, every control run of s is in the result, whole
\* and in its original order, the runs behind the cut included.
C24_TruncateKeepsEveryRun ==
    (op = "truncate" /\ truncationHappens) =>
        /\ \A run \in controlRuns(s) : run \subseteq kept
        /\ out = Pick(s, ascending(kept)) \o t

(***************************************************************************)
(* layout.ts.  A position is held in halves: 0 is 0 (left, top), 1 is 0.5  *)
(* (center), 2 is 1 (right, bottom); so "position <= 0" is pos <= 0 and    *)
(* "position >= 1" is pos >= 2.                                            *)
(***************************************************************************)
NEWLINE == <<10>>

\* new Array(count).fill(line)
fill(count, line) == [k \in 1..count |-> line]

RECURSIVE maxLength(_, _)
maxLength(allLines, i) ==
    IF i > Len(allLines) THEN 0
    ELSE Max(Len(allLines[i]), maxLength(allLines, i + 1))

\* paddedLines.map(lines => lines[row]).join('')
RECURSIVE rowOf(_, _, _)
rowOf(paddedLines, row, i) ==
    IF i > Len(paddedLines) THEN <<>>
    ELSE paddedLines[i][row] \o rowOf(paddedLines, row, i + 1)

joinHorizontal(position, strs) ==
    IF Len(strs) = 0 THEN <<>>
    ELSE IF Len(strs) = 1 THEN strs[1]
    ELSE
      LET allLines == [i \in 1..Len(strs) |-> split(strs[i], LF)]
          maxHeight == maxLength(allLines, 1)
          widths == [i \in 1..Len(strs) |-> maxLineWidth(join(allLines[i], NEWLINE))]
          alignedLines ==
            [i \in 1..Len(strs) |->
               LET lines == allLines[i]
                   height == Len(lines)
                   width == widths[i]
                   diff == maxHeight - height
                   emptyLine == repeat(SPACE, width)
               IN IF height = maxHeight THEN lines
                  ELSE IF position <= 0 THEN lines \o fill(diff, emptyLine)
                  ELSE IF position >= 2 THEN fill(diff, emptyLine) \o lines
                  ELSE LET top == diff \div 2
                           bottom == diff - top
                       IN fill(top, emptyLine) \o lines \o fill(bottom, emptyLine)]
          paddedLines ==
            [i \in 1..Len(strs) |->
               [k \in 1..Len(alignedLines[i]) |-> padRight(alignedLines[i][k], widths[i], SPACE)]]
          result == [row \in 1..maxHeight |-> rowOf(paddedLines, row, 1)]
      IN join(result, NEWLINE)

RECURSIVE maxOfWidths(_, _)
maxOfWidths(strs, i) ==
    IF i > Len(strs) THEN 0
    ELSE Max(maxLineWidth(strs[i]), maxOfWidths(strs, i + 1))

\* A variant of joinVertical whose centring puts the odd column on the left.
joinVertical_extraLeft(position, strs) ==
    IF Len(strs) = 0 THEN <<>>
    ELSE IF Len(strs) = 1 THEN strs[1]
    ELSE
      LET maxWidth == maxOfWidths(strs, 1)
          aligned ==
            [i \in 1..Len(strs) |->
               LET lines == split(strs[i], LF) IN
               join([k \in 1..Len(lines) |->
                       LET line == lines[k]
                           width == stringWidth(line)
                           diff == maxWidth - width
                       IN IF width = maxWidth THEN line
                          ELSE IF position <= 0 THEN padRight(line, maxWidth, SPACE)
                          ELSE IF position >= 2 THEN repeat(SPACE, diff) \o line
                          ELSE LET left == diff - diff \div 2
                                   right == diff - left
                               IN repeat(SPACE, left) \o line \o repeat(SPACE, right)],
                    NEWLINE)]
      IN join(aligned, NEWLINE)

\* joinVertical (layout.ts): the blocks one below the other.
joinVertical(position, strs) ==
    IF Len(strs) = 0 THEN <<>>
    ELSE IF Len(strs) = 1 THEN strs[1]
    ELSE
      LET maxWidth == maxOfWidths(strs, 1)
          aligned ==
            [i \in 1..Len(strs) |->
               LET lines == split(strs[i], LF) IN
               join([k \in 1..Len(lines) |->
                       LET line == lines[k]
                           width == stringWidth(line)
                           diff == maxWidth - width
                       IN IF width = maxWidth THEN line
                          ELSE IF position <= 0 THEN padRight(line, maxWidth, SPACE)
                          ELSE IF position >= 2 THEN repeat(SPACE, diff) \o line
                          ELSE LET left == diff \div 2
                                   right == diff - left
                               IN repeat(SPACE, left) \o line \o repeat(SPACE, right)],
                    NEWLINE)]
      IN join(aligned, NEWLINE)

\* The start offset of place on one axis: 0, size - contentSize, or
\* Math.floor((size - contentSize) * pos).
startOffset(pos, size, contentSize) ==
    IF pos <= 0 THEN 0
    ELSE IF pos >= 2 THEN size - contentSize
    ELSE ((size - contentSize) * pos) \div 2

\* A row whose construction raised a RangeError (String.prototype.repeat with
\* a negative count).
RangeError == <<-1>>

\* The rows place pushes, in order; a row is RangeError when building it throws.
placeRows(width, height, hp, vp, content, background) ==
    LET contentLines == split(content, LF)
        contentWidth == maxLineWidth(content)
        contentHeight == Len(contentLines)
        startX == startOffset(hp, width, contentWidth)
        startY == startOffset(vp, height, contentHeight)
    IN [row \in 1..height |->
          LET y == row - 1 IN
          IF y >= startY /\ y < startY + contentHeight
          THEN LET contentLine == contentLines[y - startY + 1]
                   padded == padRight(contentLine, contentWidth, SPACE)
               IN IF repeatThrows(startX) THEN RangeError
                  ELSE repeat(background, startX) \o padded
                       \o repeat(background, Max(0, width - startX - contentWidth))
          ELSE IF repeatThrows(width) THEN RangeError
          ELSE repeat(background, width)]

placeThrows(width, height, hp, vp, content, background) ==
    \E row \in 1..height :
        placeRows(width, height, hp, vp, content, background)[row] = RangeError

place(width, height, hp, vp, content, background) ==
    join(placeRows(width, height, hp, vp, content, background), NEWLINE)

getSize(str) == [width |-> maxLineWidth(str), height |-> Len(split(str, LF))]
getWidth(str) == maxLineWidth(str)
getHeight(str) == Len(split(str, LF))

(***************************************************************************)
(* The layout compositor as a state machine: one call from the idle state. *)
(***************************************************************************)
MaxBlockLen == 3   \* longest block handed to the compositor
MaxCanvas == 2     \* largest canvas width and height of place

\* m, newline, a wide character, ESC, 0x9d, BEL.
BlockChars == {109, 10, 20320, 27, 157, 7}

\* The content of place: m, newline, a wide character.
PlaceChars == {109, 10, 20320}

\* -0.5, 0, 0.5, 1 and 1.5, in halves.
Positions == {-1, 0, 1, 2, 3}

InitLayout == Idle /\ styles = NoStyles

\* joinHorizontal / joinVertical on zero, one or two blocks; h holds the
\* number of blocks.
BlockLists ==
    {<<>>} \cup {<<a>> : a \in Str(BlockChars, MaxBlockLen)}
           \cup {<<a, b>> : a \in Str(BlockChars, MaxBlockLen),
                            b \in Str(BlockChars, MaxBlockLen - 1)}

CallJoinHorizontal ==
    /\ op = "none"
    /\ \E position \in Positions, strs \in BlockLists :
         LET result == joinHorizontal(position, strs) IN
         /\ hPos' = position
         /\ h' = Len(strs)
         /\ s' = IF Len(strs) >= 1 THEN strs[1] ELSE <<>>
         /\ t' = IF Len(strs) >= 2 THEN strs[2] ELSE <<>>
         /\ out' = result
         /\ num' = getWidth(result)
         /\ num2' = getHeight(result)
    /\ op' = "joinHorizontal"
    /\ UNCHANGED <<n, vPos, out2, kept, threw, styles, recv, stages>>

CallJoinVertical ==
    /\ op = "none"
    /\ \E position \in Positions, strs \in BlockLists :
         LET result == joinVertical(position, strs) IN
         /\ hPos' = position
         /\ h' = Len(strs)
         /\ s' = IF Len(strs) >= 1 THEN strs[1] ELSE <<>>
         /\ t' = IF Len(strs) >= 2 THEN strs[2] ELSE <<>>
         /\ out' = result
         /\ num' = getWidth(result)
         /\ num2' = getHeight(result)
    /\ op' = "joinVertical"
    /\ UNCHANGED <<n, vPos, out2, kept, threw, styles, recv, stages>>

\* place with the default background; on an exception nothing is returned.
CallPlace ==
    /\ op = "none"
    /\ \E width \in 0..MaxCanvas, height \in 0..MaxCanvas,
          hp \in Positions, vp \in Positions,
          content \in Str(PlaceChars, MaxBlockLen) :
         LET raised == placeThrows(width, height, hp, vp, content, SPACE)
             result == place(width, height, hp, vp, content, SPACE)
         IN
         /\ n' = width
         /\ h' = height
         /\ hPos' = hp
         /\ vPos' = vp
         /\ s' = content
         /\ threw' = raised
         /\ out' = IF raised THEN <<>> ELSE result
         /\ num2' = IF raised THEN 0 ELSE getHeight(result)
    /\ op' = "place"
    /\ UNCHANGED <<t, out2, kept, num, styles, recv, stages>>

\* lineCount(s), getHeight(s) and getSize(s) on one block.
CallLineCount ==
    /\ op = "none"
    /\ \E str \in Str(BlockChars, MaxBlockLen) :
         /\ s' = str
         /\ num' = lineCount(str)
    /\ op' = "lineCount"
    /\ UNCHANGED <<t, n, h, hPos, vPos, out, out2, kept, num2, threw, styles, recv, stages>>

CallGetHeight ==
    /\ op = "none"
    /\ \E str \in Str(BlockChars, MaxBlockLen) :
         /\ s' = str
         /\ num2' = getHeight(str)
    /\ op' = "getHeight"
    /\ UNCHANGED <<t, n, h, hPos, vPos, out, out2, kept, num, threw, styles, recv, stages>>

CallGetSize ==
    /\ op = "none"
    /\ \E str \in Str(BlockChars, MaxBlockLen) :
         /\ s' = str
         /\ num' = getSize(str).width
         /\ num2' = getSize(str).height
    /\ op' = "getSize"
    /\ UNCHANGED <<t, n, h, hPos, vPos, out, out2, kept, threw, styles, recv, stages>>

NextLayout ==
    \/ CallJoinHorizontal
    \/ CallJoinVertical
    \/ CallPlace
    \/ CallLineCount
    \/ CallGetHeight
    \/ CallGetSize

SpecLayout == InitLayout /\ [][NextLayout]_vars

(***************************************************************************)
(* Claims about the layout compositor.                                     *)
(***************************************************************************)

\* Every line of the block consists of visible text and whole control runs.
wholeLines(str) ==
    \A k \in 1..Len(split(str, LF)) : endsInGround(split(str, LF)[k])

\* C7: joinHorizontal(pos, a, b) is getWidth(a) + getWidth(b) wide and
\* max(getHeight(a), getHeight(b)) high, and each of its rows is a row of a
\* at a's width followed by a row of b at b's width.  Stated here for the
\* blocks whose lines hold only visible text and whole control runs.
C7_JoinHorizontalSize ==
    (op = "joinHorizontal" /\ h = 2 /\ wholeLines(s) /\ wholeLines(t)) =>
        /\ num = getWidth(s) + getWidth(t)
        /\ num2 = Max(getHeight(s), getHeight(t))
        /\ \A k \in 1..Len(split(out, LF)) :
             \E cut \in 0..Len(split(out, LF)[k]) :
                LET row == split(out, LF)[k] IN
                /\ stringWidth(SubSeq(row, 1, cut)) = getWidth(s)
                /\ stringWidth(SubSeq(row, cut + 1, Len(row))) = getWidth(t)

\* C9: place(width, height, hPos, vPos, content) raises no exception and
\* returns exactly height lines, for every width >= 0 and height >= 1.
C9_PlaceReturnsHeightLines ==
    (op = "place" /\ n >= 0 /\ h >= 1) => (~threw /\ num2 = h)

newlines(str) == Cardinality({i \in 1..Len(str) : str[i] = LF})

\* C20: lineCount("") is 0 while getHeight("") and getSize("").height are 1;
\* on every other string all three are the number of newlines plus one.
C20_LineCountVsHeight ==
    /\ op = "lineCount" => num = IF s = <<>> THEN 0 ELSE newlines(s) + 1
    /\ op = "getHeight" => num2 = newlines(s) + 1
    /\ op = "getSize" => num2 = newlines(s) + 1

\* lineCount has been called on the empty string.
C20_Witness == op = "lineCount" /\ s = <<>> /\ num = 0

(***************************************************************************)
(* style.ts: colours.  A StyleColor is null, a number, an {r, g, b} object *)
(* or a hex string; one record shape holds them all.                       *)
(***************************************************************************)
CSI == <<27, 91>>
RESET == <<27, 91, 109>>

NULL == [kind |-> "null", n |-> 0, r |-> 0, g |-> 0, b |-> 0, hex |-> <<>>]
NumberColor(index) == [kind |-> "number", n |-> index, r |-> 0, g |-> 0, b |-> 0, hex |-> <<>>]
RgbColor(r, g, b) == [kind |-> "object", n |-> 0, r |-> r, g |-> g, b |-> b, hex |-> <<>>]
HexColor(hex) == [kind |-> "string", n |-> 0, r |-> 0, g |-> 0, b |-> 0, hex |-> hex]

\* Template-literal formatting of a non-negative integer.
RECURSIVE toDec(_)
toDec(k) == IF k < 10 THEN <<48 + k>> ELSE toDec(k \div 10) \o <<48 + (k % 10)>>

isHexDigit(u) == (u >= 48 /\ u <= 57) \/ (u >= 97 /\ u <= 102) \/ (u >= 65 /\ u <= 70)
hexValue(u) == IF u <= 57 THEN u - 48 ELSE IF u >= 97 THEN u - 87 ELSE u - 55

\* parseInt(hex, 16): the value of the longest prefix of hex digits; NaN,
\* which the shifts below read as 0, when there is none.
RECURSIVE parseHex(_, _, _)
parseHex(hex, i, acc) ==
    IF i > Len(hex) \/ ~isHexDigit(hex[i]) THEN acc
    ELSE parseHex(hex, i + 1, acc * 16 + hexValue(hex[i]))

\* color.replace(/^#/, ''), then each digit of a 3-digit form doubled.
normalizeHex(color) ==
    LET hex == IF Len(color) > 0 /\ color[1] = 35 THEN SubSeq(color, 2, Len(color)) ELSE color
    IN IF Len(hex) = 3 THEN <<hex[1], hex[1], hex[2], hex[2], hex[3], hex[3]>> ELSE hex

rgbSequence(base, r, g, b) ==
    CSI \o toDec(base) \o <<59, 50, 59>> \o toDec(r) \o <<59>> \o toDec(g) \o <<59>>
        \o toDec(b) \o <<109>>

colorToSequence(color, isForeground) ==
    LET base == IF isForeground THEN 38 ELSE 48 IN
    IF color.kind = "number" THEN
        IF color.n < 16
        THEN CSI \o toDec((IF isForeground THEN 30 ELSE 40) + (color.n % 8)) \o <<109>>
        ELSE CSI \o toDec(base) \o <<59, 53, 59>> \o toDec(color.n) \o <<109>>
    ELSE IF color.kind = "object" THEN rgbSequence(base, color.r, color.g, color.b)
    ELSE LET parsed == parseHex(normalizeHex(color.hex), 1, 0)
         IN rgbSequence(base, (parsed \div 65536) % 256, (parsed \div 256) % 256,
                        parsed % 256)

(***************************************************************************)
(* border.ts: the glyph sets.                                              *)
(***************************************************************************)
NoBorder ==
    [top |-> <<>>, bottom |-> <<>>, left |-> <<>>, right |-> <<>>,
     topLeft |-> <<>>, topRight |-> <<>>, bottomLeft |-> <<>>, bottomRight |-> <<>>]

NormalBorder ==
    [top |-> <<9472>>, bottom |-> <<9472>>, left |-> <<9474>>, right |-> <<9474>>,
     topLeft |-> <<9484>>, topRight |-> <<9488>>, bottomLeft |-> <<9492>>,
     bottomRight |-> <<9496>>]

AsciiBorder ==
    [top |-> <<45>>, bottom |-> <<45>>, left |-> <<124>>, right |-> <<124>>,
     topLeft |-> <<43>>, topRight |-> <<43>>, bottomLeft |-> <<43>>, bottomRight |-> <<43>>]

(***************************************************************************)
(* The Style class.  An object is its options record; the constructor      *)
(* fills the defaults and clone builds a new object from the receiver's    *)
(* options overridden by the changes.                                      *)
(***************************************************************************)
DefaultTabWidth == 4

defaultOptions ==
    [bold |-> FALSE, italic |-> FALSE, underline |-> FALSE, strikethrough |-> FALSE,
     blink |-> FALSE, faint |-> FALSE, reverse |-> FALSE,
     foreground |-> NULL, background |-> NULL,
     width |-> 0, height |-> 0, maxWidth |-> 0, maxHeight |-> 0,
     alignHorizontal |-> 0, alignVertical |-> 0,
     paddingTop |-> 0, paddingRight |-> 0, paddingBottom |-> 0, paddingLeft |-> 0,
     marginTop |-> 0, marginRight |-> 0, marginBottom |-> 0, marginLeft |-> 0,
     marginBackground |-> NULL,
     border |-> NoBorder,
     borderTop |-> FALSE, borderRight |-> FALSE, borderBottom |-> FALSE, borderLeft |-> FALSE,
     borderForeground |-> NULL, borderBackground |-> NULL,
     inline |-> FALSE, colorWhitespace |-> TRUE, tabWidth |-> DefaultTabWidth,
     transform |-> "null"]

\* { ...options, ...changes }
spread(options, changes) ==
    [k \in DOMAIN options |-> IF k \in DOMAIN changes THEN changes[k] ELSE options[k]]

\* new Style(options): the defaults overridden by the options given.
newStyle(options) == spread(defaultOptions, options)

\* The heap after this.clone(changes): the new object is allocated last.
clone_inPlace(heap, this, changes) ==
    Append([heap EXCEPT ![this] = spread(heap[this], changes)],
           newStyle(spread(heap[this], changes)))

clone(heap, this, changes) ==
    Append(heap, newStyle(spread(heap[this], changes)))

(***************************************************************************)
(* The builder methods, each as the changes it hands to clone.  An         *)
(* optional trailing argument that is left out is a shorter args list.     *)
(***************************************************************************)
setBold(enable) == [bold |-> enable]
setItalic(enable) == [italic |-> enable]
setUnderline(enable) == [underline |-> enable]
setStrikethrough(enable) == [strikethrough |-> enable]
setBlink(enable) == [blink |-> enable]
setFaint(enable) == [faint |-> enable]
setReverse(enable) == [reverse |-> enable]

setForeground(color) == [foreground |-> color]
setBackground(color) == [background |-> color]

setWidth(w) == [width |-> Max(0, w)]
setHeight(hh) == [height |-> Max(0, hh)]
setMaxWidth(w) == [maxWidth |-> Max(0, w)]
setMaxHeight(hh) == [maxHeight |-> Max(0, hh)]

\* align(horizontal, vertical?)
setAlign(options, args) ==
    [alignHorizontal |-> args[1],
     alignVertical |-> IF Len(args) >= 2 THEN args[2] ELSE options.alignVertical]
setAlignHorizontal(pos) == [alignHorizontal |-> pos]
setAlignVertical(pos) == [alignVertical |-> pos]

\* padding(top, right?, bottom?, left?)
setPadding(args) ==
    IF Len(args) = 1 THEN
        [paddingTop |-> args[1], paddingRight |-> args[1],
         paddingBottom |-> args[1], paddingLeft |-> args[1]]
    ELSE IF Len(args) = 2 THEN
        [paddingTop |-> args[1], paddingBottom |-> args[1],
         paddingRight |-> args[2], paddingLeft |-> args[2]]
    ELSE
        [paddingTop |-> args[1], paddingRight |-> args[2], paddingBottom |-> args[3],
         paddingLeft |-> IF Len(args) >= 4 THEN args[4] ELSE args[2]]
setPaddingTop(k) == [paddingTop |-> k]
setPaddingRight(k) == [paddingRight |-> k]
setPaddingBottom(k) == [paddingBottom |-> k]
setPaddingLeft(k) == [paddingLeft |-> k]

\* margin(top, right?, bottom?, left?)
setMargin(args) ==
    IF Len(args) = 1 THEN
        [marginTop |-> args[1], marginRight |-> args[1],
         marginBottom |-> args[1], marginLeft |-> args[1]]
    ELSE IF Len(args) = 2 THEN
        [marginTop |-> args[1], marginBottom |-> args[1],
         marginRight |-> args[2], marginLeft |-> args[2]]
    ELSE
        [marginTop |-> args[1], marginRight |-> args[2], marginBottom |-> args[3],
         marginLeft |-> IF Len(args) >= 4 THEN args[4] ELSE args[2]]
setMarginTop(k) == [marginTop |-> k]
setMarginRight(k) == [marginRight |-> k]
setMarginBottom(k) == [marginBottom |-> k]
setMarginLeft(k) == [marginLeft |-> k]
setMarginBackground(color) == [marginBackground |-> color]

\* border(chars, all = true)
setBorder(chars, all) ==
    [border |-> chars, borderTop |-> all, borderRight |-> all,
     borderBottom |-> all, borderLeft |-> all]
setBorderStyle(chars) == [border |-> chars]
setBorderTop(enable) == [borderTop |-> enable]
setBorderRight(enable) == [borderRight |-> enable]
setBorderBottom(enable) == [borderBottom |-> enable]
setBorderLeft(enable) == [borderLeft |-> enable]
setBorderForeground(color) == [borderForeground |-> color]
setBorderBackground(color) == [borderBackground |-> color]

setInline(enable) == [inline |-> enable]
setColorWhitespace(enable) == [colorWhitespace |-> enable]
setTabWidth(k) == [tabWidth |-> k]
setTransform(fn) == [transform |-> fn]

(***************************************************************************)
(* Style.render, stage by stage.                                           *)
(***************************************************************************)
\* str.replace(/<unit>/g, replacement) for a one-unit pattern.
RECURSIVE replaceUnit(_, _, _, _)
replaceUnit(str, unit, replacement, i) ==
    IF i > Len(str) THEN <<>>
    ELSE IF str[i] = unit THEN replacement \o replaceUnit(str, unit, replacement, i + 1)
    ELSE <<str[i]>> \o replaceUnit(str, unit, replacement, i + 1)

\* str.replace(/\r\n/g, '\n')
RECURSIVE replaceCrLf(_, _)
replaceCrLf(str, i) ==
    IF i > Len(str) THEN <<>>
    ELSE IF str[i] = 13 /\ i + 1 <= Len(str) /\ str[i + 1] = 10
         THEN <<10>> \o replaceCrLf(str, i + 2)
    ELSE <<str[i]>> \o replaceCrLf(str, i + 1)

\* The transform callbacks of the model: none, or str => str.toUpperCase().
applyTransform(fn, str) ==
    IF fn = "toUpperCase"
    THEN [i \in 1..Len(str) |-> IF str[i] >= 97 /\ str[i] <= 122 THEN str[i] - 32 ELSE str[i]]
    ELSE str

\* lines.map(f).join('\n') over the lines of str; mapped holds f's results.
mapLines(mapped) == join(mapped, NEWLINE)

\* Stage 1: join the arguments, transform, tabs, carriage returns, inline.
preprocess(opts, strs) ==
    LET joined == join(strs, SPACE)
        transformed == IF opts.transform # "null"
                       THEN applyTransform(opts.transform, joined) ELSE joined
        tabbed == IF opts.tabWidth >= 0
                  THEN replaceUnit(transformed, 9,
                                   IF opts.tabWidth = 0 THEN <<>>
                                   ELSE repeat(SPACE, opts.tabWidth), 1)
                  ELSE transformed
        unix == replaceCrLf(tabbed, 1)
    IN IF opts.inline THEN replaceUnit(unix, 10, <<>>, 1) ELSE unix

\* parts.join(';') of the active emphasis codes, in the order they are pushed.
RECURSIVE joinCodes(_, _)
joinCodes(parts, i) ==
    IF i > Len(parts) THEN <<>>
    ELSE IF i = Len(parts) THEN <<parts[i]>>
    ELSE <<parts[i], 59>> \o joinCodes(parts, i + 1)

buildStyleSequence(opts) ==
    LET parts == (IF opts.bold THEN <<49>> ELSE <<>>)
                 \o (IF opts.faint THEN <<50>> ELSE <<>>)
                 \o (IF opts.italic THEN <<51>> ELSE <<>>)
                 \o (IF opts.underline THEN <<52>> ELSE <<>>)
                 \o (IF opts.blink THEN <<53>> ELSE <<>>)
                 \o (IF opts.reverse THEN <<55>> ELSE <<>>)
                 \o (IF opts.strikethrough THEN <<57>> ELSE <<>>)
        codes == IF Len(parts) > 0 THEN CSI \o joinCodes(parts, 1) \o <<109>> ELSE <<>>
    IN codes
       \o (IF opts.foreground.kind # "null" THEN colorToSequence(opts.foreground, TRUE) ELSE <<>>)
       \o (IF opts.background.kind # "null" THEN colorToSequence(opts.background, FALSE) ELSE <<>>)

buildWhitespaceSequence(opts) ==
    (IF opts.reverse THEN CSI \o <<55, 109>> ELSE <<>>)
    \o (IF opts.background.kind # "null" /\ opts.colorWhitespace
        THEN colorToSequence(opts.background, FALSE) ELSE <<>>)

whitespaceSequence(opts) ==
    IF opts.colorWhitespace THEN buildWhitespaceSequence(opts) ELSE <<>>

hasBorder(opts) ==
    opts.borderTop \/ opts.borderRight \/ opts.borderBottom \/ opts.borderLeft

\* Stage 2: every line wrapped as styleSeq + line + RESET.
applyStyle_wholeBlock(opts, str) ==
    LET styleSeq == buildStyleSequence(opts)
    IN IF styleSeq # <<>> THEN styleSeq \o str \o RESET ELSE str

applyStyle(opts, str) ==
    LET styleSeq == buildStyleSequence(opts)
        lines == split(str, LF)
    IN IF styleSeq # <<>>
       THEN mapLines([k \in 1..Len(lines) |-> styleSeq \o lines[k] \o RESET])
       ELSE str

\* A run of count spaces, wrapped in the whitespace sequence when there is one.
whitespace(whitespaceSeq, count) ==
    IF whitespaceSeq # <<>> THEN whitespaceSeq \o repeat(SPACE, count) \o RESET
    ELSE repeat(SPACE, count)

\* Stage 3: padding.
applyPadding(opts, str, whitespaceSeq) ==
    IF opts.inline THEN str
    ELSE
      LET lines1 == split(str, LF)
          s1 == IF opts.paddingLeft > 0
                THEN mapLines([k \in 1..Len(lines1) |->
                                  whitespace(whitespaceSeq, opts.paddingLeft) \o lines1[k]])
                ELSE str
          lines2 == split(s1, LF)
          s2 == IF opts.paddingRight > 0
                THEN mapLines([k \in 1..Len(lines2) |->
                                  lines2[k] \o whitespace(whitespaceSeq, opts.paddingRight)])
                ELSE s1
          s3 == IF opts.paddingTop > 0 THEN repeat(NEWLINE, opts.paddingTop) \o s2 ELSE s2
      IN IF opts.paddingBottom > 0 THEN s3 \o repeat(NEWLINE, opts.paddingBottom) ELSE s3

\* Stage 4: width fit.  Position.Left is 0 and Position.Right is 1 (2 halves).
applyWidth_extraLeft(str, width, align, whitespaceSeq) ==
    LET lines == split(str, LF)
        pad(count) == IF whitespaceSeq # <<>>
                      THEN whitespaceSeq \o repeat(SPACE, count) \o RESET
                      ELSE repeat(SPACE, count)
    IN mapLines([k \in 1..Len(lines) |->
         LET line == lines[k]
             lineWidth == stringWidth(line)
             diff == width - lineWidth
         IN IF lineWidth >= width THEN line
            ELSE IF align = 0 THEN line \o pad(diff)
            ELSE IF align = 2 THEN pad(diff) \o line
            ELSE LET right == diff \div 2
                     left == diff - right
                 IN pad(left) \o line \o pad(right)])

applyWidth(str, width, align, whitespaceSeq) ==
    LET lines == split(str, LF)
        pad(count) == IF whitespaceSeq # <<>>
                      THEN whitespaceSeq \o repeat(SPACE, count) \o RESET
                      ELSE repeat(SPACE, count)
    IN mapLines([k \in 1..Len(lines) |->
         LET line == lines[k]
             lineWidth == stringWidth(line)
             diff == width - lineWidth
         IN IF lineWidth >= width THEN line
            ELSE IF align = 0 THEN line \o pad(diff)
            ELSE IF align = 2 THEN pad(diff) \o line
            ELSE LET left == diff \div 2
                     right == diff - left
                 IN pad(left) \o line \o pad(right)])

\* Stage 5: height fit.  Position.Top is 0 and Position.Bottom is 1 (2 halves).
applyHeight_extraAbove(str, height, align, whitespaceSeq) ==
    LET lines == split(str, LF) IN
    IF Len(lines) >= height THEN str
    ELSE
      LET width == maxLineWidth(str)
          emptyLine == IF whitespaceSeq # <<>>
                       THEN whitespaceSeq \o repeat(SPACE, width) \o RESET
                       ELSE repeat(SPACE, width)
          diff == height - Len(lines)
      IN IF align = 0 THEN str \o NEWLINE \o join(fill(diff, emptyLine), NEWLINE)
         ELSE IF align = 2 THEN join(fill(diff, emptyLine), NEWLINE) \o NEWLINE \o str
         ELSE LET bottom == diff \div 2
                  top == diff - bottom
              IN join(fill(top, emptyLine), NEWLINE)
                 \o (IF top > 0 THEN NEWLINE ELSE <<>>) \o str
                 \o (IF bottom > 0 THEN NEWLINE ELSE <<>>)
                 \o join(fill(bottom, emptyLine), NEWLINE)

applyHeight(str, height, align, whitespaceSeq) ==
    LET lines == split(str, LF) IN
    IF Len(lines) >= height THEN str
    ELSE
      LET width == maxLineWidth(str)
          emptyLine == IF whitespaceSeq # <<>>
                       THEN whitespaceSeq \o repeat(SPACE, width) \o RESET
                       ELSE repeat(SPACE, width)
          diff == height - Len(lines)
      IN IF align = 0 THEN str \o NEWLINE \o join(fill(diff, emptyLine), NEWLINE)
         ELSE IF align = 2 THEN join(fill(diff, emptyLine), NEWLINE) \o NEWLINE \o str
         ELSE LET top == diff \div 2
                  bottom == diff - top
              IN join(fill(top, emptyLine), NEWLINE)
                 \o (IF top > 0 THEN NEWLINE ELSE <<>>) \o str
                 \o (IF bottom > 0 THEN NEWLINE ELSE <<>>)
                 \o join(fill(bottom, emptyLine), NEWLINE)

\* Stage 6: border.
applyBorder(opts, str) ==
    LET border == opts.border
        lines == split(str, LF)
        width == maxLineWidth(str)
        borderFg == IF opts.borderForeground.kind # "null"
                    THEN colorToSequence(opts.borderForeground, TRUE) ELSE <<>>
        borderBg == IF opts.borderBackground.kind # "null"
                    THEN colorToSequence(opts.borderBackground, FALSE) ELSE <<>>
        borderStyle == borderFg \o borderBg
        borderReset == IF borderStyle # <<>> THEN RESET ELSE <<>>
        top == (IF opts.borderLeft THEN border.topLeft ELSE <<>>)
               \o repeat(border.top, width)
               \o (IF opts.borderRight THEN border.topRight ELSE <<>>)
        bottom == (IF opts.borderLeft THEN border.bottomLeft ELSE <<>>)
                  \o repeat(border.bottom, width)
                  \o (IF opts.borderRight THEN border.bottomRight ELSE <<>>)
        rows == [k \in 1..Len(lines) |->
                   (IF opts.borderLeft THEN borderStyle \o border.left \o borderReset ELSE <<>>)
                   \o padRight(lines[k], width, SPACE)
                   \o (IF opts.borderRight THEN borderStyle \o border.right \o borderReset
                       ELSE <<>>)]
        result == (IF opts.borderTop THEN <<borderStyle \o top \o borderReset>> ELSE <<>>)
                  \o rows
                  \o (IF opts.borderBottom THEN <<borderStyle \o bottom \o borderReset>>
                      ELSE <<>>)
    IN join(result, NEWLINE)

\* Stage 7: margin.  The result is RangeError when one of the repeat calls
\* is handed a negative count.
applyMargin(opts, str) ==
    LET lines == split(str, LF)
        width == maxLineWidth(str)
        marginBg == IF opts.marginBackground.kind # "null"
                    THEN colorToSequence(opts.marginBackground, FALSE) ELSE <<>>
        marginReset == IF marginBg # <<>> THEN RESET ELSE <<>>
        sides == opts.marginLeft > 0 \/ opts.marginRight > 0
        totalWidth == width + opts.marginLeft + opts.marginRight
        throws == \/ sides /\ (repeatThrows(opts.marginLeft) \/ repeatThrows(opts.marginRight))
                  \/ opts.marginTop > 0 /\ repeatThrows(totalWidth)
                  \/ opts.marginBottom > 0 /\ repeatThrows(totalWidth)
        left == marginBg \o repeat(SPACE, opts.marginLeft) \o marginReset
        right == marginBg \o repeat(SPACE, opts.marginRight) \o marginReset
        emptyLine == marginBg \o repeat(SPACE, totalWidth) \o marginReset
        result1 == IF sides THEN [k \in 1..Len(lines) |-> left \o lines[k] \o right]
                   ELSE lines
        result2 == IF opts.marginTop > 0 THEN fill(opts.marginTop, emptyLine) \o result1
                   ELSE result1
        result3 == IF opts.marginBottom > 0 THEN result2 \o fill(opts.marginBottom, emptyLine)
                   ELSE result2
    IN IF throws THEN RangeError ELSE join(result3, NEWLINE)

\* Stage 8a: one line cut to maxWidth, walking it code point by code point
\* (for..of) and charging each its stringWidth.
RECURSIVE clampLoop(_, _, _, _, _)
clampLoop(line, maxWidth, i, result, w) ==
    IF i > Len(line) THEN result
    ELSE LET pair == isHighSurrogate(line[i]) /\ i + 1 <= Len(line)
                     /\ isLowSurrogate(line[i + 1])
             char == IF pair THEN <<line[i], line[i + 1]>> ELSE <<line[i]>>
             cw == stringWidth(char)
         IN IF w + cw > maxWidth THEN result
            ELSE clampLoop(line, maxWidth, i + Len(char), result \o char, w + cw)

applyMaxWidth_byLength(str, maxWidth) ==
    LET lines == split(str, LF) IN
    mapLines([k \in 1..Len(lines) |->
                IF stringWidth(lines[k]) > maxWidth
                THEN SubSeq(lines[k], 1, Min(maxWidth, Len(lines[k])))
                ELSE lines[k]])

applyMaxWidth(str, maxWidth) ==
    LET lines == split(str, LF) IN
    mapLines([k \in 1..Len(lines) |->
                IF stringWidth(lines[k]) > maxWidth
                THEN clampLoop(lines[k], maxWidth, 1, <<>>, 0)
                ELSE lines[k]])

\* Stage 8b: the first maxHeight lines.
applyMaxHeight(str, maxHeight) ==
    LET lines == split(str, LF) IN
    IF Len(lines) > maxHeight THEN join(SubSeq(lines, 1, maxHeight), NEWLINE) ELSE str

\* The guarded stages of render; an exception thrown by an earlier stage
\* propagates through the later ones.
stageWidth(opts, str) ==
    IF opts.width > 0
    THEN applyWidth(str, opts.width, opts.alignHorizontal, whitespaceSequence(opts))
    ELSE str

stageHeight(opts, str) ==
    IF opts.height > 0
    THEN applyHeight(str, opts.height, opts.alignVertical, whitespaceSequence(opts))
    ELSE str

stageBorder(opts, str) ==
    IF ~opts.inline /\ hasBorder(opts) THEN applyBorder(opts, str) ELSE str

stageMargin(opts, str) ==
    IF ~opts.inline THEN applyMargin(opts, str) ELSE str

stageMaxWidth(opts, str) ==
    IF str = RangeError THEN RangeError
    ELSE IF opts.maxWidth > 0 THEN applyMaxWidth(str, opts.maxWidth) ELSE str

stageMaxHeight(opts, str) ==
    IF str = RangeError THEN RangeError
    ELSE IF opts.maxHeight > 0 THEN applyMaxHeight(str, opts.maxHeight) ELSE str

\* The one element of a one-element set.
only(values) == CHOOSE value \in values : TRUE

\* The points of render at which str is observed: after preprocessing and
\* after each of the eight stages that follow.
Text == 1
Styled == 2
Padded == 3
FitWidth == 4
FitHeight == 5
Bordered == 6
Margined == 7
ClampedWidth == 8
Result == 9

\* The stage that takes str from point k to point k + 1.
stage(opts, k, str) ==
    CASE k = Text -> applyStyle(opts, str)
      [] k = Styled -> applyPadding(opts, str, whitespaceSequence(opts))
      [] k = Padded -> stageWidth(opts, str)
      [] k = FitWidth -> stageHeight(opts, str)
      [] k = FitHeight -> stageBorder(opts, str)
      [] k = Bordered -> stageMargin(opts, str)
      [] k = Margined -> stageMaxWidth(opts, str)
      [] OTHER -> stageMaxHeight(opts, str)

\* str is assigned stage by stage; each stage sees the value the one before
\* it left.  trace holds the values so far.
RECURSIVE renderFrom(_, _, _)
renderFrom(opts, k, trace) ==
    IF k = Result THEN trace
    ELSE only({ renderFrom(opts, k + 1, next) :
                next \in {Append(trace, stage(opts, k, trace[k]))} })

renderStages(opts, strs) == renderFrom(opts, Text, <<preprocess(opts, strs)>>)

\* render(...strs): the string returned, or RangeError when a stage throws.
render(opts, strs) == only({ trace[Result] : trace \in {renderStages(opts, strs)} })

(***************************************************************************)
(* Style objects: a heap of option records.  styles[1] is style(); every   *)
(* builder call allocates the object it returns.  render is called on the  *)
(* object allocated last (an older object has the options some smaller     *)
(* heap's last object has).                                                *)
(***************************************************************************)
MaxStyles == 3

Flags == {"bold", "italic", "underline", "strikethrough", "blink", "faint", "reverse"}
Colors == {NumberColor(1), HexColor(<<35, 102, 48, 48>>)}
Dimensions == {-1, 0, 1, 2}
Spaces == {-1, 1}
SpaceArgs == UNION {[1..m -> Spaces] : m \in 1..4}
Aligns == {-1, 0, 1, 2, 3}
AlignArgs == UNION {[1..m -> Aligns] : m \in 1..2}
Borders == {NormalBorder, AsciiBorder}
TabWidths == {-1, 0, 2}
Transforms == {"null", "toUpperCase"}
RenderArgs ==
    {<<<<109>>>>, <<<<109, 10, 20320>>>>, <<<<9, 109, 13, 10>>, <<109>>>>, <<<<27, 91>>>>,
     <<<<157, 109, 7>>>>}

InitStyle == Idle /\ styles = <<newStyle(<<>>)>>

\* this.method(...) for a builder method handing changes to clone.
Build(name, this, changes) ==
    /\ op # "render"
    /\ Len(styles) < MaxStyles
    /\ styles' = clone(styles, this, changes)
    /\ recv' = this
    /\ op' = name
    /\ UNCHANGED <<s, t, n, h, hPos, vPos, out, out2, kept, num, num2, threw, stages>>

\* bold, italic, underline, strikethrough, blink, faint, reverse
CallEmphasis ==
    \E this \in 1..Len(styles), flag \in Flags, enable \in BOOLEAN :
        Build("emphasis", this,
              CASE flag = "bold" -> setBold(enable)
                [] flag = "italic" -> setItalic(enable)
                [] flag = "underline" -> setUnderline(enable)
                [] flag = "strikethrough" -> setStrikethrough(enable)
                [] flag = "blink" -> setBlink(enable)
                [] flag = "faint" -> setFaint(enable)
                [] OTHER -> setReverse(enable))

\* foreground / fg, background / bg
CallColor ==
    \E this \in 1..Len(styles), color \in Colors, isForeground \in BOOLEAN :
        Build("color", this,
              IF isForeground THEN setForeground(color) ELSE setBackground(color))

\* width, height, maxWidth, maxHeight
CallDimension ==
    \E this \in 1..Len(styles), k \in Dimensions,
       method \in {"width", "height", "maxWidth", "maxHeight"} :
        Build("dimension", this,
              CASE method = "width" -> setWidth(k)
                [] method = "height" -> setHeight(k)
                [] method = "maxWidth" -> setMaxWidth(k)
                [] OTHER -> setMaxHeight(k))

\* align, alignHorizontal, alignVertical
CallAlign ==
    \E this \in 1..Len(styles) :
        \/ \E args \in AlignArgs : Build("align", this, setAlign(styles[this], args))
        \/ \E pos \in Aligns : Build("align", this, setAlignHorizontal(pos))
        \/ \E pos \in Aligns : Build("align", this, setAlignVertical(pos))

\* padding, paddingTop, paddingRight, paddingBottom, paddingLeft
CallPadding ==
    \E this \in 1..Len(styles) :
        \/ \E args \in SpaceArgs : Build("padding", this, setPadding(args))
        \/ \E k \in Spaces, side \in {"top", "right", "bottom", "left"} :
              Build("padding", this,
                    CASE side = "top" -> setPaddingTop(k)
                      [] side = "right" -> setPaddingRight(k)
                      [] side = "bottom" -> setPaddingBottom(k)
                      [] OTHER -> setPaddingLeft(k))

\* margin, marginTop, marginRight, marginBottom, marginLeft, marginBackground
CallMargin ==
    \E this \in 1..Len(styles) :
        \/ \E args \in SpaceArgs : Build("margin", this, setMargin(args))
        \/ \E k \in Spaces, side \in {"top", "right", "bottom", "left"} :
              Build("margin", this,
                    CASE side = "top" -> setMarginTop(k)
                      [] side = "right" -> setMarginRight(k)
                      [] side = "bottom" -> setMarginBottom(k)
                      [] OTHER -> setMarginLeft(k))
        \/ \E color \in Colors : Build("margin", this, setMarginBackground(color))

\* border, borderStyle, borderTop, borderRight, borderBottom, borderLeft,
\* borderForeground, borderBackground
CallBorder ==
    \E this \in 1..Len(styles) :
        \/ \E chars \in Borders, all \in BOOLEAN :
              Build("border", this, setBorder(chars, all))
        \/ \E chars \in Borders : Build("border", this, setBorderStyle(chars))
        \/ \E enable \in BOOLEAN, side \in {"top", "right", "bottom", "left"} :
              Build("border", this,
                    CASE side = "top" -> setBorderTop(enable)
                      [] side = "right" -> setBorderRight(enable)
                      [] side = "bottom" -> setBorderBottom(enable)
                      [] OTHER -> setBorderLeft(enable))
        \/ \E color \in Colors, isForeground \in BOOLEAN :
              Build("border", this,
                    IF isForeground THEN setBorderForeground(color)
                    ELSE setBorderBackground(color))

\* inline, colorWhitespace, tabWidth, transform
CallOther ==
    \E this \in 1..Len(styles) :
        \/ \E enable \in BOOLEAN : Build("other", this, setInline(enable))
        \/ \E enable \in BOOLEAN : Build("other", this, setColorWhitespace(enable))
        \/ \E k \in TabWidths : Build("other", this, setTabWidth(k))
        \/ \E fn \in Transforms : Build("other", this, setTransform(fn))

\* styles[last].render(...strs)
CallRender ==
    /\ op # "render"
    /\ \E strs \in RenderArgs :
         \E trace \in {renderStages(styles[Len(styles)], strs)} :
         /\ op' = "render"
         /\ recv' = Len(styles)
         /\ s' = strs[1]
         /\ t' = IF Len(strs) > 1 THEN strs[2] ELSE <<>>
         /\ h' = Len(strs)
         /\ stages' = trace
         /\ threw' = (trace[Result] = RangeError)
         /\ out' = IF trace[Result] = RangeError THEN <<>> ELSE trace[Result]
    /\ UNCHANGED <<n, hPos, vPos, out2, kept, num, num2, styles>>

NextStyle ==
    \/ CallEmphasis \/ CallColor \/ CallDimension \/ CallAlign
    \/ CallPadding \/ CallMargin \/ CallBorder \/ CallOther
    \/ CallRender

SpecStyle == InitStyle /\ [][NextStyle]_vars

\* C8: render returns a string and raises nothing, whatever integers the
\* builder calls that made the Style were given and whatever the text is.
C8_RenderNeverThrows == op = "render" => ~threw

\* C10: a builder call allocates a new Style and leaves every Style that
\* already exists, the receiver included, with the options it had, and so
\* with the render output it had.
C10_ReceiverUnchanged ==
    [][op' # "render" =>
          /\ Len(styles') = Len(styles) + 1
          /\ \A i \in 1..Len(styles) : styles'[i] = styles[i]
          /\ render(styles'[recv'], <<<<9, 109, 10, 20320>>>>)
               = render(styles[recv'], <<<<9, 109, 10, 20320>>>>)]_vars

\* A builder call made on a derived Style has returned a Style whose
\* options differ from the receiver's and from the original's.
C10_Witness ==
    /\ op \notin {"none", "render"}
    /\ Len(styles) = 3 /\ recv = 2
    /\ styles[3] # styles[2] /\ styles[2] # styles[1] /\ styles[3] # styles[1]
    /\ styles[1] = newStyle(<<>>)

(***************************************************************************)
(* Claims about the configuration and the render stages.                   *)
(***************************************************************************)
\* The options of the Style that was rendered, and the strings it was given.
rendered == styles[recv]
renderArgs == IF h = 2 THEN <<s, t>> ELSE <<s>>
linesAt(point) == split(stages[point], LF)

\* C11: every size field of every Style is >= 0: width, height, maxWidth,
\* maxHeight, the four padding fields and the four margin fields.
C11_SizesNonNegative ==
    \A i \in 1..Len(styles) :
        /\ styles[i].width >= 0 /\ styles[i].height >= 0
        /\ styles[i].maxWidth >= 0 /\ styles[i].maxHeight >= 0
        /\ styles[i].paddingTop >= 0 /\ styles[i].paddingRight >= 0
        /\ styles[i].paddingBottom >= 0 /\ styles[i].paddingLeft >= 0
        /\ styles[i].marginTop >= 0 /\ styles[i].marginRight >= 0
        /\ styles[i].marginBottom >= 0 /\ styles[i].marginLeft >= 0

\* C12: style().width(w).render(text) with w > 0 wraps: every line of the
\* output is at most w columns wide.
C12_WidthWraps ==
    (op = "render" /\ rendered.width > 0
       /\ rendered = spread(defaultOptions, setWidth(rendered.width))) =>
        \A k \in 1..Len(split(out, LF)) : stringWidth(split(out, LF)[k]) <= rendered.width

\* C13: with maxWidth > 0 the clamp leaves each line a prefix of what it was
\* in which every control run of the line is whole or wholly absent.
C13_ClampKeepsRunsWhole ==
    (op = "render" /\ ~threw /\ rendered.maxWidth > 0) =>
        \A k \in 1..Len(linesAt(Margined)) :
            LET before == linesAt(Margined)[k]
                after == linesAt(ClampedWidth)[k]
            IN /\ Len(after) <= Len(before)
               /\ after = SubSeq(before, 1, Len(after))
               /\ \A run \in controlRuns(before) :
                     run \subseteq 1..Len(after) \/ run \cap (1..Len(after)) = {}
\* C14: with maxWidth > 0 every line of the output is at most maxWidth
\* columns wide; with maxHeight > 0 the output is the first maxHeight lines
\* of the block the width clamp left, in order, or all of them when there
\* are fewer.
C14_MaxClampBound ==
    (op = "render" /\ ~threw) =>
        /\ rendered.maxWidth > 0 =>
              \A k \in 1..Len(linesAt(Result)) :
                  stringWidth(linesAt(Result)[k]) <= rendered.maxWidth
        /\ rendered.maxHeight > 0 =>
              /\ Len(linesAt(Result)) <= rendered.maxHeight
              /\ Len(linesAt(Result)) = Min(rendered.maxHeight, Len(linesAt(ClampedWidth)))
              /\ linesAt(Result) = SubSeq(linesAt(ClampedWidth), 1, Len(linesAt(Result)))
        /\ rendered.maxHeight <= 0 => stages[Result] = stages[ClampedWidth]

\* Both clamps have cut: a wide character did not fit and lines were dropped.
C14_Witness ==
    /\ op = "render" /\ ~threw
    /\ rendered.maxWidth > 0 /\ rendered.maxHeight > 0
    /\ Includes(stages[Margined], 20320) /\ ~Includes(stages[ClampedWidth], 20320)
    /\ Len(linesAt(Result)) < Len(linesAt(ClampedWidth))

\* The emphasis codes in the order they are listed, each with its flag.
emphasisOrder ==
    <<<<"bold", 49>>, <<"faint", 50>>, <<"italic", 51>>, <<"underline", 52>>,
      <<"blink", 53>>, <<"reverse", 55>>, <<"strikethrough", 57>>>>

activeCodes(opts) ==
    LET isActive(pair) == opts[pair[1]]
        active == SelectSeq(emphasisOrder, isActive)
    IN [k \in 1..Len(active) |-> <<active[k][2]>>]

\* enter: CSI, the active codes separated by ';', 'm'; then the foreground
\* and the background colour code.
enterSequence(opts) ==
    (IF activeCodes(opts) # <<>> THEN CSI \o join(activeCodes(opts), <<59>>) \o <<109>>
     ELSE <<>>)
    \o (IF opts.foreground # NULL THEN colorToSequence(opts.foreground, TRUE) ELSE <<>>)
    \o (IF opts.background # NULL THEN colorToSequence(opts.background, FALSE) ELSE <<>>)

\* C15: when an emphasis flag or a colour is set, each line of the
\* preprocessed text is wrapped on its own as enter + line + reset; when
\* nothing is set the text is left as it is.
C15_StyleWrapsEachLine ==
    op = "render" =>
        IF enterSequence(rendered) = <<>> THEN stages[Styled] = stages[Text]
        ELSE /\ Len(linesAt(Styled)) = Len(linesAt(Text))
             /\ \A k \in 1..Len(linesAt(Text)) :
                   linesAt(Styled)[k] = enterSequence(rendered) \o linesAt(Text)[k] \o RESET

\* Two emphasis flags are set and the text has two lines.
C15_Witness ==
    /\ op = "render"
    /\ rendered.reverse /\ rendered.strikethrough
    /\ Len(linesAt(Text)) = 2
    /\ stages[Styled] # stages[Text]
\* A filler of the given number of columns: its visible text is that many
\* spaces.
isFiller(str, columns) ==
    stringWidth(str) = columns /\ stripAnsi(str) = repeat(SPACE, columns)

\* C16: with height > 0 and a named vertical position, a block of fewer
\* lines becomes exactly height lines: its own lines unchanged and in order,
\* the fillers (each as wide as the block) below them for Top, above them
\* for Bottom, floor(diff / 2) above and the rest below for Center.  A block
\* of height lines or more is unchanged.
C16_HeightFit ==
    (op = "render" /\ rendered.height > 0 /\ rendered.alignVertical \in {0, 1, 2}) =>
        LET before == linesAt(FitWidth)
            after == linesAt(FitHeight)
            diff == rendered.height - Len(before)
            above == IF rendered.alignVertical = 0 THEN 0
                     ELSE IF rendered.alignVertical = 2 THEN diff
                     ELSE diff \div 2
        IN IF Len(before) >= rendered.height THEN stages[FitHeight] = stages[FitWidth]
           ELSE /\ Len(after) = rendered.height
                /\ SubSeq(after, above + 1, above + Len(before)) = before
                /\ \A k \in (1..above) \cup ((above + Len(before) + 1)..Len(after)) :
                      isFiller(after[k], maxLineWidth(stages[FitWidth]))

\* A one-line block is centred in two lines: the filler goes below.
C16_Witness ==
    /\ op = "render" /\ rendered.height = 2 /\ rendered.alignVertical = 1
    /\ Len(linesAt(FitWidth)) = 1 /\ Len(linesAt(FitHeight)) = 2
    /\ linesAt(FitHeight)[1] = stages[FitWidth]

\* The filler columns that go to the left of a line that is diff short.
fillerLeft(align, diff) ==
    IF align = 0 THEN 0 ELSE IF align = 2 THEN diff ELSE diff \div 2

\* after is before with left filler columns in front of it and right
\* filler columns behind it.
isFilled(before, after, left, right) ==
    \E cut \in 0..(Len(after) - Len(before)) :
        /\ SubSeq(after, cut + 1, cut + Len(before)) = before
        /\ isFiller(SubSeq(after, 1, cut), left)
        /\ isFiller(SubSeq(after, cut + Len(before) + 1, Len(after)), right)

byThreshold(pos) == IF pos <= 0 THEN 0 ELSE IF pos >= 2 THEN 2 ELSE 1

\* C19: the renderer's width fit and height fit treat an alignment value by
\* the thresholds: the output is the one the named position gives.
C19_AlignmentByThreshold ==
    (op = "render" /\ ~threw) =>
        out = render(spread(rendered,
                            [alignHorizontal |-> byThreshold(rendered.alignHorizontal),
                             alignVertical |-> byThreshold(rendered.alignVertical)]),
                     renderArgs)

\* 1 for an enabled side, 0 for a disabled one.
side(enabled) == IF enabled THEN 1 ELSE 0

\* No padding and no margin of the Style is negative.
nonNegative(opts) ==
    /\ opts.paddingTop >= 0 /\ opts.paddingRight >= 0
    /\ opts.paddingBottom >= 0 /\ opts.paddingLeft >= 0
    /\ opts.marginTop >= 0 /\ opts.marginRight >= 0
    /\ opts.marginBottom >= 0 /\ opts.marginLeft >= 0

\* Every glyph of the border set is one column wide.
glyphsOneColumn(border) ==
    \A name \in DOMAIN border : stringWidth(border[name]) = 1

\* The size the stage order gives the output of a text of lines lines and
\* of cols columns: padding inside the fixed width and height, border and
\* margin outside them.
boxWidth(opts, cols) ==
    Max(opts.width, cols + opts.paddingLeft + opts.paddingRight)
        + side(opts.borderLeft) + side(opts.borderRight)
        + opts.marginLeft + opts.marginRight
boxHeight(opts, lines) ==
    Max(opts.height, lines + opts.paddingTop + opts.paddingBottom)
        + side(opts.borderTop) + side(opts.borderBottom)
        + opts.marginTop + opts.marginBottom

\* C21: the stages apply in the order padding, width fit, height fit,
\* border, margin, max clamp.  Without inline, with non-negative padding and
\* margin, one-column border glyphs and no max clamp, the output of a text
\* of n lines and c columns is max(width, c + paddingLeft + paddingRight)
\* + [borderLeft] + [borderRight] + marginLeft + marginRight columns wide
\* and max(height, n + paddingTop + paddingBottom) + [borderTop]
\* + [borderBottom] + marginTop + marginBottom lines high.
C21_StageOrderSize ==
    (op = "render" /\ ~threw /\ ~rendered.inline /\ nonNegative(rendered)
       /\ (hasBorder(rendered) => glyphsOneColumn(rendered.border))
       /\ rendered.maxWidth = 0 /\ rendered.maxHeight = 0) =>
        /\ maxLineWidth(out) = boxWidth(rendered, maxLineWidth(stages[Text]))
        /\ Len(split(out, LF)) = boxHeight(rendered, Len(linesAt(Text)))

\* C22: with maxWidth > 0, a line wider than maxWidth is cut to the longest
\* prefix of its visible text that is at most maxWidth columns wide, control
\* sequences costing nothing.
C22_ClampCountsColumns ==
    (op = "render" /\ ~threw /\ rendered.maxWidth > 0) =>
        \A k \in 1..Len(linesAt(Margined)) :
            stringWidth(linesAt(Margined)[k]) > rendered.maxWidth =>
                visibleText(linesAt(ClampedWidth)[k]) =
                    longestPrefix(visibleText(linesAt(Margined)[k]), rendered.maxWidth)

\* row is line right-padded with spaces to columns columns, behind the left
\* glyph when that side is enabled and in front of the right glyph when
\* that side is enabled.
isBorderedRow(opts, row, line, columns) ==
    \E cut \in 0..Len(row), pad \in 0..columns :
        /\ cut + Len(line) + pad <= Len(row)
        /\ visibleText(SubSeq(row, 1, cut)) =
               (IF opts.borderLeft THEN opts.border.left ELSE <<>>)
        /\ SubSeq(row, cut + 1, cut + Len(line)) = line
        /\ SubSeq(row, cut + Len(line) + 1, cut + Len(line) + pad) = repeat(SPACE, pad)
        /\ visibleText(SubSeq(row, cut + Len(line) + pad + 1, Len(row))) =
               (IF opts.borderRight THEN opts.border.right ELSE <<>>)
        /\ stringWidth(line \o repeat(SPACE, pad)) = Max(columns, stringWidth(line))

\* C25: without inline and with a side enabled and one-column glyphs, every
\* line of the bordered block is W + [borderLeft] + [borderRight] columns
\* wide, W being the width of the block before the border.  The top and the
\* bottom line are there exactly when their side is enabled and have a
\* corner glyph at an end exactly when the side next to it is enabled; the
\* rows between are the lines of the block right-padded to W.
C25_BorderLines ==
    (op = "render" /\ ~rendered.inline /\ hasBorder(rendered)
       /\ glyphsOneColumn(rendered.border)) =>
        LET inner == linesAt(FitHeight)
            outer == linesAt(Bordered)
            columns == maxLineWidth(stages[FitHeight])
            above == side(rendered.borderTop)
            below == side(rendered.borderBottom)
            glyphs == rendered.border
        IN /\ Len(outer) = Len(inner) + above + below
           /\ \A k \in 1..Len(outer) :
                 stringWidth(outer[k]) =
                     columns + side(rendered.borderLeft) + side(rendered.borderRight)
           /\ rendered.borderTop =>
                 visibleText(outer[1]) =
                     (IF rendered.borderLeft THEN glyphs.topLeft ELSE <<>>)
                     \o repeat(glyphs.top, columns)
                     \o (IF rendered.borderRight THEN glyphs.topRight ELSE <<>>)
           /\ rendered.borderBottom =>
                 visibleText(outer[Len(outer)]) =
                     (IF rendered.borderLeft THEN glyphs.bottomLeft ELSE <<>>)
                     \o repeat(glyphs.bottom, columns)
                     \o (IF rendered.borderRight THEN glyphs.bottomRight ELSE <<>>)
           /\ \A k \in 1..Len(inner) :
                 isBorderedRow(rendered, outer[k + above], inner[k], columns)

\* C26: with inline set the output of render holds no newline.
C26_InlineSingleLine ==
    (op = "render" /\ ~threw /\ rendered.inline) => ~Includes(out, LF)

====
